---- MODULE Spec2Model ----
(***************************************************************************)
(* Model of the ingestion pipeline of estimareimob.                        *)
(*                                                                         *)
(* process_urls (src/pipeline.py) reads a URL file and, inside one         *)
(* AsyncSession, runs for every URL: duplicate check, fetch, JSON-LD       *)
(* extraction, parsing/normalisation, geocoding, Property insert + flush,  *)
(* Listing insert + commit, with the two exception handlers of the loop    *)
(* body and the inter-record delay.  The store (tables properties and      *)
(* listings of src/models.py) outlives the runs; the session (its open     *)
(* transaction) lives for one run.                                         *)
(*                                                                         *)
(* Time is counted in hundredths of a second and only the sleeps of the    *)
(* code advance it, which is the least time that can elapse.               *)
(***************************************************************************)
EXTENDS Integers, Sequences, FiniteSets, TLC

\* ------------------------------------------------------------------ bounds
\* number of distinct listing URLs
NumUrls == 2
\* longest input file, in lines
MaxLines == 2
\* number of URLs taken up, over all runs against the same store
MaxTaken == 2

\* --------------------------------------------------------------- constants
\* settings.GEOCODER_DELAY, 0.25 s
GEOCODER_DELAY == 25
\* settings.PIPELINE_DELAY, 0.25 s
PIPELINE_DELAY == 25

Urls == 1..NumUrls
\* a line that is empty after strip()
Blank == 0
FileLines == UNION {[1..k -> Urls \cup {Blank}] : k \in 0..MaxLines}
FileStates == {"ok", "missing", "unreadable"}

\* the time since the last geocoder call is kept up to GEOCODER_DELAY, the
\* only value it is compared with; before the first call of a run it is there
MaxGap == GEOCODER_DELAY
Elapse(t, d) == IF t + d > MaxGap THEN MaxGap ELSE t + d

Range(s) == {s[k] : k \in 1..Len(s)}

VARIABLES
    taken,        \* number of URLs taken up so far, over all runs
    fileState,    \* what opening the input file of the current run gave
    urls,         \* the list read from the file (kept after the run ends)
    i,            \* enumerate index of the URL being processed (0: none yet)
    pc,           \* position of process_urls
    outcome,      \* outcome[k]: how the k-th URL of this run ended
    propsC,       \* committed rows of table properties
    listsC,       \* committed rows of table listings
    propsP,       \* Property rows of the session's open transaction
    listsP,       \* Listing rows of the session's open transaction
    sessInactive, \* the session's transaction needs a rollback before use
    nextId,       \* next value of the properties.id sequence
    nTxn,         \* number of commits made so far
    cur,          \* locals of the current loop iteration, and what held when it began
    cnt,          \* per-run counts of the operations issued
    sinceGeo,     \* time elapsed since the last geocoder call of this run returned
    inFlight,     \* geocoder calls started and not yet returned
    failedTx,     \* ids of Properties whose Listing insert/commit raised SQLAlchemyError
    hist,         \* recorded when a run starts: the previous run read the same list
                  \* and reached its end, it ended every URL well, the row counts
    call,         \* the helper function being applied, its argument and its result
    crPc,         \* position of Publi24Crawler.run
    page,         \* page number of the crawler's loop (0: none yet)
    html,         \* what fetch_search_page returned for the current page
    extracted,    \* self.extracted_urls of the crawler instance
    requested,    \* page numbers requested by this crawl, in order
    slept,        \* a politeness delay was slept since the last request
    outFile,      \* contents of the crawler's output file (it outlives the crawls)
    crawls        \* number of crawls started so far

pipeline == <<taken, fileState, urls, i, pc, outcome, propsC, listsC, propsP, listsP,
              sessInactive, nextId, nTxn, cur, cnt, sinceGeo, inFlight,
              failedTx, hist>>
crawler == <<crPc, page, html, extracted, requested, slept, outFile, crawls>>

vars == <<pipeline, call, crawler>>

store == <<propsC, listsC>>
session == <<propsP, listsP, sessInactive>>

\* ---------------------------------------------------------------- outcomes
None == "none"
Dup == "duplicate-skipped"
Persisted == "persisted"
Failed == "failed"

CurInit == [known |-> FALSE, at |-> [fetch |-> 0, extract |-> 0, rows |-> <<0, 0>>],
            geo |-> "none", geoCalls |-> 0, loc |-> "NULL", propId |-> 0, err |-> "-",
            title |-> "-"]
CntInit == [check |-> 0, fetch |-> 0, extract |-> 0, delay |-> 0]

Rows == <<Cardinality(propsC), Cardinality(listsC)>>

\* ------------------------------------------------------------ the input file
\* urls = [line.strip() for line in f if line.strip()]
StripLines(lines) == SelectSeq(lines, LAMBDA l : l # Blank)

ReadUrlsIgnoringErrors(f) == [status |-> "ok", urls |-> StripLines(f.lines)]

\* open + read: FileNotFoundError is caught (return), any other error propagates
ReadUrls(f) ==
    IF f.state = "ok" THEN [status |-> "ok", urls |-> StripLines(f.lines)]
    ELSE IF f.state = "missing" THEN [status |-> "returned", urls |-> <<>>]
    ELSE [status |-> "raised", urls |-> <<>>]

\* ------------------------------------------------------------------ the store
HasUrlNever(rows, url) == FALSE

\* a row of listings whose listing_url equals url
HasUrl(rows, url) == \E l \in rows : l.listing_url = url

ExistingNever(url) == FALSE

\* select(Listing).where(Listing.listing_url == url), run in the session's transaction
Existing(url) == HasUrl(listsC \cup listsP, url)

\* listing_url = Column(String, unique=True): the INSERT of l is refused
UniqueViolation(l) == HasUrl((listsC \cup listsP) \ {l}, l.listing_url)

Committed(rows, t) == {r @@ [txn |-> t] : r \in rows}

\* ------------------------------------------------- helpers and crawler at rest
\* no helper function is being applied
NoCall == [fn |-> "none", arg |-> <<>>, res |-> <<>>]
\* fetch_search_page returned None, or no page was fetched yet
NoHtml == [ok |-> FALSE, links |-> {}]
\* the output file does not exist (and no write of it has failed)
NoFile == [exists |-> FALSE, lines |-> <<>>, writeFailed |-> FALSE]

Init ==
    /\ taken = 0
    /\ fileState = "ok"
    /\ urls = <<>>
    /\ i = 0
    /\ pc = "idle"
    /\ outcome = <<>>
    /\ propsC = {} /\ listsC = {}
    /\ propsP = {} /\ listsP = {}
    /\ sessInactive = FALSE
    /\ nextId = 1
    /\ nTxn = 0
    /\ cur = CurInit
    /\ cnt = CntInit
    /\ sinceGeo = MaxGap
    /\ inFlight = 0
    /\ failedTx = {}
    /\ hist = [sameAsPrev |-> FALSE, prevAllOk |-> FALSE, rows0 |-> <<0, 0>>]
    /\ call = NoCall
    /\ crPc = "idle"
    /\ page = 0
    /\ html = NoHtml
    /\ extracted = {}
    /\ requested = <<>>
    /\ slept = FALSE
    /\ outFile = NoFile
    /\ crawls = 0

\* ============================================================ helper functions
\* Each helper is applied to every input of a bounded set: a Call action puts
\* the function, its argument and its result in call, Return clears it.

\* the application returns
Return ==
    /\ call.fn # "none"
    /\ call' = NoCall
    /\ UNCHANGED <<pipeline, crawler>>

\* ------------------------------------------------------------ extract_json_ld
\* most script tags of a document
MaxBlocks == 2
\* most items of an @graph array or of a top-level JSON array
MaxItems == 2

\* a JSON value that is no dict (a string, a number, null)
Scalar == [dict |-> FALSE, type |-> "-", offers |-> FALSE, tag |-> 0]
\* dict items: tag tells two entities of the same kind apart
Entities == {[dict |-> TRUE, type |-> "Product", offers |-> TRUE, tag |-> t] : t \in 1..2}
            \cup {[dict |-> TRUE, type |-> "Product", offers |-> FALSE, tag |-> 1],
                  [dict |-> TRUE, type |-> "Article", offers |-> TRUE, tag |-> 1]}
ItemSeqs == UNION {[1..k -> Entities \cup {Scalar}] : k \in 0..MaxItems}

\* what a script tag's JSON text denotes once it parses: a dict (its own @type
\* and offers, and its "@graph" entry: absent, an array, or null), a list, or a
\* scalar
JsonValues ==
    {[shape |-> "dict", self |-> e, graph |-> "absent", items |-> <<>>] : e \in Entities}
    \cup {[shape |-> "dict", self |-> [dict |-> TRUE, type |-> "WebPage", offers |-> FALSE, tag |-> 1],
           graph |-> "array", items |-> its] : its \in ItemSeqs}
    \cup {[shape |-> "dict", self |-> [dict |-> TRUE, type |-> "WebPage", offers |-> FALSE, tag |-> 1],
           graph |-> "null", items |-> <<>>]}
    \cup {[shape |-> "list", self |-> Scalar, graph |-> "absent", items |-> its] : its \in ItemSeqs}
    \cup {[shape |-> "scalar", self |-> Scalar, graph |-> "absent", items |-> <<>>]}

\* a script tag: no string child at all, or a JSON text that is well formed,
\* well formed but for trailing commas, or malformed otherwise
Blocks ==
    {[text |-> t, json |-> v] : t \in {"wellformed", "trailing-commas"}, v \in JsonValues}
    \cup {[text |-> t, json |-> [shape |-> "scalar", self |-> Scalar, graph |-> "absent",
                                 items |-> <<>>]] : t \in {"no-string", "malformed"}}
Documents == UNION {[1..k -> Blocks] : k \in 0..MaxBlocks}

Nothing == [status |-> "none", obj |-> Scalar]
Found(e) == [status |-> "found", obj |-> e]
Raised == [status |-> "raised", obj |-> Scalar]

\* json.loads(clean_string): the value, or JSONDecodeError
Loads(b) == IF b.text = "wellformed" THEN [ok |-> TRUE, value |-> b.json]
            ELSE [ok |-> FALSE, value |-> b.json]

\* re.sub(r',(\s*[}\]])', r'\1', clean_string): the trailing commas are gone
RemoveTrailingCommas(b) ==
    IF b.text = "trailing-commas" THEN [b EXCEPT !.text = "wellformed"] ELSE b

\* x.get("@type") == "Product" and "offers" in x
IsTarget(e) == e.type = "Product" /\ e.offers

\* for item in items: if isinstance(item, dict): if target: return item
RECURSIVE FirstTarget(_)
FirstTarget(items) ==
    IF items = <<>> THEN Nothing
    ELSE IF Head(items).dict /\ IsTarget(Head(items)) THEN Found(Head(items))
    ELSE FirstTarget(Tail(items))

\* the selection applied to a value that json.loads gave at the first attempt
SelectStrict(v) ==
    IF v.shape = "dict"
    THEN IF IsTarget(v.self) THEN Found(v.self)
         ELSE IF v.graph = "array" THEN FirstTarget(v.items)
         ELSE IF v.graph = "null" THEN Raised   \* for ... in None: TypeError
         ELSE Nothing
    ELSE IF v.shape = "list" THEN FirstTarget(v.items)
    ELSE Nothing

\* the selection applied to a value that parsed after the cleanup
SelectRecovered(v) ==
    IF v.shape = "dict" /\ IsTarget(v.self) THEN Found(v.self) ELSE Nothing

\* Publi24ListingParser.extract_json_ld over the script tags of the document
RECURSIVE ScanBlocks(_)
ScanBlocks(tags) ==
    IF tags = <<>> THEN Nothing
    ELSE LET b == Head(tags)
             strict == Loads(b)
             again == Loads(RemoveTrailingCommas(b))
             got == IF b.text = "no-string" THEN Nothing
                    ELSE IF strict.ok THEN SelectStrict(strict.value)
                    ELSE IF again.ok THEN SelectRecovered(again.value)
                    ELSE Nothing
         IN IF got.status = "none" THEN ScanBlocks(Tail(tags)) ELSE got

extract_json_ld(doc) == ScanBlocks(doc)

CallExtractJsonLd ==
    /\ call.fn = "none"
    /\ \E doc \in Documents :
        call' = [fn |-> "extract_json_ld", arg |-> doc, res |-> extract_json_ld(doc)]
    /\ UNCHANGED <<pipeline, crawler>>

JsonLdNext == CallExtractJsonLd \/ Return

JsonLdSpec == Init /\ [][JsonLdNext]_vars

\* the rule of the claims: what a block yields once it parsed, at the first
\* attempt or after the trailing-comma repair
Parsed(b) == b.text \in {"wellformed", "trailing-commas"}

Yield(b) ==
    IF ~Parsed(b) THEN Nothing
    ELSE IF b.json.shape = "dict" /\ IsTarget(b.json.self) THEN Found(b.json.self)
    ELSE IF b.json.shape = "dict" /\ b.json.graph = "array" THEN FirstTarget(b.json.items)
    ELSE IF b.json.shape = "list" THEN FirstTarget(b.json.items)
    ELSE Nothing

RECURSIVE FirstYield(_)
FirstYield(doc) ==
    IF doc = <<>> THEN Nothing
    ELSE IF Yield(Head(doc)).status = "found" THEN Yield(Head(doc))
    ELSE FirstYield(Tail(doc))

\* C11: extract_json_ld returns the object of the first block, in document
\* order, that yields an accepted object (the block itself, the first accepted
\* dict item of its @graph array, or the first accepted dict item of a list
\* block), and returns nothing exactly when no block yields one.
C11_FirstAccepted ==
    call.fn = "extract_json_ld" => call.res = FirstYield(call.arg)

\* C11 with the blocks that need the repair and the blocks whose @graph is no
\* array left out
C11_StrictBlocksOnly ==
    (/\ call.fn = "extract_json_ld"
     /\ \A k \in 1..Len(call.arg) :
            call.arg[k].text # "trailing-commas" /\ call.arg[k].json.graph # "null")
        => call.res = FirstYield(call.arg)

\* C12: a first block that parses only after the trailing-comma repair is
\* treated as the same block without the trailing commas is, and a first block
\* that fails both parses is skipped: the result is that of the rest of the
\* document.
C12_RepairedSameRule ==
    (call.fn = "extract_json_ld" /\ call.arg # <<>>) =>
        /\ Head(call.arg).text = "trailing-commas" =>
              call.res = extract_json_ld(<<RemoveTrailingCommas(Head(call.arg))>> \o Tail(call.arg))
        /\ Head(call.arg).text = "malformed" =>
              call.res = extract_json_ld(Tail(call.arg))

\* -------------------------------------------------------------- extract_floor
\* longest feature text, in atoms
MaxFloorAtoms == 3

\* an optional integer
Null == [null |-> TRUE, val |-> 0]
Some(n) == [null |-> FALSE, val |-> n]


DigitAtoms == {"1", "2", "3"}
DigitValue(a) == IF a = "1" THEN 1 ELSE IF a = "2" THEN 2 ELSE 3

\* a text is a sequence of atoms: a whole word, a digit, a minus sign or a
\* space; no word is part of another one; {a-breve} stands for the letter a
\* with breve (U+0103), which str.lower() leaves as it is
FloorAtoms == {"Parter", "Demisol", "Mansard{a-breve}", "Mansarda", "etaj", "-", " ", "1", "3"}

\* features.get("Etaj"): the key is absent, or it holds a text
FloorInputs == {[present |-> FALSE, text |-> <<>>]}
               \cup {[present |-> TRUE, text |-> t] :
                        t \in UNION {[1..k -> FloorAtoms] : k \in 0..MaxFloorAtoms}}

\* str.lower(), atom by atom
LowerAtom(a) ==
    CASE a = "Parter" -> "parter"
      [] a = "Demisol" -> "demisol"
      [] a = "Mansard{a-breve}" -> "mansard{a-breve}"
      [] a = "Mansarda" -> "mansarda"
      [] a = "Camera" -> "camera"
      [] a = "Apartament" -> "apartament"
      [] a = "Casa" -> "casa"
      [] a = "Vila" -> "vila"
      [] a = "Teren" -> "teren"
      [] OTHER -> a
Lower(t) == [k \in 1..Len(t) |-> LowerAtom(t[k])]

\* str.strip(): the spaces at both ends go
RECURSIVE LStrip(_)
LStrip(t) == IF t # <<>> /\ Head(t) = " " THEN LStrip(Tail(t)) ELSE t
RECURSIVE RStrip(_)
RStrip(t) == IF t # <<>> /\ t[Len(t)] = " " THEN RStrip(SubSeq(t, 1, Len(t) - 1)) ELSE t
Strip(t) == RStrip(LStrip(t))

\* word in text
Contains(t, word) == \E k \in 1..Len(t) : t[k] = word

\* int() of the longest run of digits that starts at position k
RECURSIVE DigitRun(_, _, _)
DigitRun(t, k, acc) ==
    IF k <= Len(t) /\ t[k] \in DigitAtoms
    THEN DigitRun(t, k + 1, acc * 10 + DigitValue(t[k]))
    ELSE acc

\* re.search(r'-?\d+', t) and int(match.group()): the leftmost match
RECURSIVE SearchSignedInt(_, _)
SearchSignedInt(t, k) ==
    IF k > Len(t) THEN Null
    ELSE IF t[k] = "-" /\ k < Len(t) /\ t[k + 1] \in DigitAtoms
         THEN Some(0 - DigitRun(t, k + 1, 0))
    ELSE IF t[k] \in DigitAtoms THEN Some(DigitRun(t, k, 0))
    ELSE SearchSignedInt(t, k + 1)

\* extract_floor(features), features given by its "Etaj" entry
extract_floor(etaj) ==
    IF ~etaj.present \/ etaj.text = <<>> THEN Null
    ELSE LET floor_str == Strip(Lower(etaj.text))
         IN IF Contains(floor_str, "parter") THEN Some(0)
            ELSE IF Contains(floor_str, "demisol") THEN Some(-1)
            ELSE IF Contains(floor_str, "mansarda") THEN Some(99)
            ELSE SearchSignedInt(floor_str, 1)

CallExtractFloor ==
    /\ call.fn = "none"
    /\ \E etaj \in FloorInputs :
        call' = [fn |-> "extract_floor", arg |-> etaj, res |-> extract_floor(etaj)]
    /\ UNCHANGED <<pipeline, crawler>>

FloorNext == CallExtractFloor \/ Return

FloorSpec == Init /\ [][FloorNext]_vars

\* the keywords of the claim, as the feature text spells them
GroundWords == {"Parter"}
BasementWords == {"Demisol"}
AtticWords == {"Mansard{a-breve}"}
HasWord(t, words) == \E k \in 1..Len(t) : t[k] \in words

\* C13: the "Etaj" text maps "Parter" to 0, "Demisol" to -1, "Mansarda" spelled with a-breve to 99
\* and "3" to 3; an absent or empty text gives null; a text with one kind of
\* keyword gives that keyword's value whatever digits it holds; a text without
\* keyword gives its first signed integer, or null when it has none.
C13_FloorConventions ==
    call.fn = "extract_floor" =>
        LET t == call.arg.text
            onlyOneOf(ws, others) == HasWord(t, ws) /\ ~HasWord(t, others)
        IN /\ (~call.arg.present \/ t = <<>>) => call.res = Null
           /\ t = <<"3">> => call.res = Some(3)
           /\ onlyOneOf(GroundWords, BasementWords \cup AtticWords) => call.res = Some(0)
           /\ onlyOneOf(BasementWords, GroundWords \cup AtticWords) => call.res = Some(-1)
           /\ onlyOneOf(AtticWords, GroundWords \cup BasementWords) => call.res = Some(99)
           /\ ~HasWord(t, GroundWords \cup BasementWords \cup AtticWords \cup {"Mansarda"})
                 => call.res = SearchSignedInt(Lower(t), 1)

\* C13 without the attic keyword in its spelling with the diacritic
C13_AsciiKeywords ==
    (call.fn = "extract_floor" /\ ~HasWord(call.arg.text, {"Mansard{a-breve}"})) =>
        LET t == call.arg.text
        IN /\ (~call.arg.present \/ t = <<>>) => call.res = Null
           /\ t = <<"3">> => call.res = Some(3)
           /\ (HasWord(t, GroundWords) /\ ~HasWord(t, BasementWords \cup {"Mansarda"}))
                 => call.res = Some(0)
           /\ (HasWord(t, BasementWords) /\ ~HasWord(t, GroundWords \cup {"Mansarda"}))
                 => call.res = Some(-1)
           /\ (HasWord(t, {"Mansarda"}) /\ ~HasWord(t, GroundWords \cup BasementWords))
                 => call.res = Some(99)
           /\ ~HasWord(t, GroundWords \cup BasementWords \cup {"Mansarda"})
                 => call.res = SearchSignedInt(Lower(t), 1)

\* -------------------------------------------------------- extract_total_rooms
\* longest "Numar camere" text and longest description, in atoms
MaxFieldAtoms == 2
\* longest title, in atoms
MaxTitleAtoms == 3

\* an absent value (a missing key, None) or a text
Absent == [present |-> FALSE, text |-> <<>>]
Texts(atoms, n) == {Absent} \cup {[present |-> TRUE, text |-> t] :
                                    t \in UNION {[1..k -> atoms] : k \in 0..n}}

RoomsInputs ==
    [rooms : Texts({"2", "x"}, MaxFieldAtoms),
     title : Texts({"3", " ", "camere", "Camera", "ap"}, MaxTitleAtoms),
     description : Texts({"1", "camere", "ap"}, MaxFieldAtoms)]

\* re.search(r'\d+', t) and int(match.group()): the leftmost run of digits
RECURSIVE SearchInt(_, _)
SearchInt(t, k) ==
    IF k > Len(t) THEN Null
    ELSE IF t[k] \in DigitAtoms THEN Some(DigitRun(t, k, 0))
    ELSE SearchInt(t, k + 1)

\* camere? with re.IGNORECASE matches at the start of the word
MatchesCamer(a) == LowerAtom(a) \in {"camere", "camera"}

\* \s*camere? matches at position k
RECURSIVE SpacesThenCamer(_, _)
SpacesThenCamer(t, k) ==
    IF k > Len(t) THEN FALSE
    ELSE IF t[k] = " " THEN SpacesThenCamer(t, k + 1)
    ELSE MatchesCamer(t[k])

\* the position after the run of digits that starts at k
RECURSIVE DigitsEnd(_, _)
DigitsEnd(t, k) == IF k <= Len(t) /\ t[k] \in DigitAtoms THEN DigitsEnd(t, k + 1) ELSE k

\* re.search(r'(\d+)\s*camere?', t, re.IGNORECASE) and int(match.group(1))
RECURSIVE SearchRooms(_, _)
SearchRooms(t, k) ==
    IF k > Len(t) THEN Null
    ELSE IF t[k] \in DigitAtoms /\ SpacesThenCamer(t, DigitsEnd(t, k))
         THEN Some(DigitRun(t, k, 0))
    ELSE SearchRooms(t, k + 1)

\* a text that is truthy: not None and not empty
Truthy(x) == x.present /\ x.text # <<>>

extract_total_rooms_title_first(in) ==
    LET fromField == IF Truthy(in.rooms) THEN SearchInt(in.rooms.text, 1) ELSE Null
        fromTitle == IF Truthy(in.title) THEN SearchRooms(in.title.text, 1) ELSE Null
        fromDescription == IF Truthy(in.description)
                           THEN SearchRooms(in.description.text, 1) ELSE Null
    IN IF ~fromTitle.null THEN fromTitle
       ELSE IF ~fromField.null THEN fromField
       ELSE fromDescription

\* extract_total_rooms(features, title, description), features given by its
\* "Numar camere" entry
extract_total_rooms(in) ==
    LET fromField == IF Truthy(in.rooms) THEN SearchInt(in.rooms.text, 1) ELSE Null
        fromTitle == IF Truthy(in.title) THEN SearchRooms(in.title.text, 1) ELSE Null
        fromDescription == IF Truthy(in.description)
                           THEN SearchRooms(in.description.text, 1) ELSE Null
    IN IF ~fromField.null THEN fromField
       ELSE IF ~fromTitle.null THEN fromTitle
       ELSE fromDescription

CallExtractTotalRooms ==
    /\ call.fn = "none"
    /\ \E in \in RoomsInputs :
        call' = [fn |-> "extract_total_rooms", arg |-> in, res |-> extract_total_rooms(in)]
    /\ UNCHANGED <<pipeline, crawler>>

RoomsNext == CallExtractTotalRooms \/ Return

RoomsSpec == Init /\ [][RoomsNext]_vars

\* the claim's reading of a text: the positions a..b hold digits only, b is
\* the last digit of the run, and after optional spaces comes the word for
\* room(s)
RoomWords == {"camere", "Camera"}
PhraseAt(t, a, b) ==
    /\ a <= b /\ \A k \in a..b : t[k] \in DigitAtoms
    /\ \E c \in (b + 1)..Len(t) : /\ \A k \in (b + 1)..(c - 1) : t[k] = " "
                                  /\ t[c] \in RoomWords
Number(t, a, b) ==
    IF b - a = 0 THEN DigitValue(t[a])
    ELSE IF b - a = 1 THEN 10 * DigitValue(t[a]) + DigitValue(t[b])
    ELSE 100 * DigitValue(t[a]) + 10 * DigitValue(t[a + 1]) + DigitValue(t[b])
Phrases(t) == {ab \in (1..Len(t)) \X (1..Len(t)) : ab[2] - ab[1] <= 2 /\ PhraseAt(t, ab[1], ab[2])}
FirstPhrase(x) ==
    IF ~x.present \/ Phrases(x.text) = {} THEN Null
    ELSE LET ab == CHOOSE p \in Phrases(x.text) : \A q \in Phrases(x.text) : p[1] <= q[1]
         IN Some(Number(x.text, ab[1], ab[2]))
\* the number the structured field holds: its digits, when it is made of digits
\* and other characters
FieldNumber(x) ==
    IF ~x.present \/ ~\E k \in 1..Len(x.text) : x.text[k] \in DigitAtoms THEN Null
    ELSE LET a == CHOOSE k \in 1..Len(x.text) :
                     /\ x.text[k] \in DigitAtoms
                     /\ \A j \in 1..(k - 1) : x.text[j] \notin DigitAtoms
             b == CHOOSE k \in a..Len(x.text) :
                     /\ \A j \in a..k : x.text[j] \in DigitAtoms
                     /\ (k = Len(x.text) \/ x.text[k + 1] \notin DigitAtoms)
         IN Some(Number(x.text, a, b))

MaxTypeAtoms == 2

\* parsed_data.get("title", ""): the key is always there, its value is the
\* "name" of the JSON-LD object or None; url is a line of the input file
TypeInputs ==
    [title : Texts({"Apartament", "Casa", "Vila", "Teren", "x"}, MaxTypeAtoms),
     url : Texts({"apartament", "casa", "vila", "teren", "x"}, MaxTypeAtoms) \ {Absent}]

property_type_title_or_empty(in) ==
    LET title_lower == Lower(in.title.text)
        url_lower == Lower(in.url.text)
    IN IF Contains(title_lower, "apartament") \/ Contains(url_lower, "apartament")
       THEN "apartment"
       ELSE IF \/ Contains(title_lower, "casa") \/ Contains(url_lower, "casa")
               \/ Contains(title_lower, "vila")
       THEN "house"
       ELSE IF Contains(title_lower, "teren") \/ Contains(url_lower, "teren")
       THEN "land"
       ELSE "unknown"

\* lines 128-137 of process_urls: None.lower() raises AttributeError
property_type(in) ==
    IF ~in.title.present THEN "raised"
    ELSE LET title_lower == Lower(in.title.text)
             url_lower == Lower(in.url.text)
         IN IF Contains(title_lower, "apartament") \/ Contains(url_lower, "apartament")
            THEN "apartment"
            ELSE IF \/ Contains(title_lower, "casa") \/ Contains(url_lower, "casa")
                    \/ Contains(title_lower, "vila")
            THEN "house"
            ELSE IF Contains(title_lower, "teren") \/ Contains(url_lower, "teren")
            THEN "land"
            ELSE "unknown"

CallPropertyType ==
    /\ call.fn = "none"
    /\ \E in \in TypeInputs :
        call' = [fn |-> "property_type", arg |-> in, res |-> property_type(in)]
    /\ UNCHANGED <<pipeline, crawler>>

TypeNext == CallPropertyType \/ Return

TypeSpec == Init /\ [][TypeNext]_vars

\* a marker occurs in the title or in the URL, whatever its case
InEither(in, markers) ==
    \/ \E k \in 1..Len(in.title.text) : LowerAtom(in.title.text[k]) \in markers
    \/ \E k \in 1..Len(in.url.text) : LowerAtom(in.url.text[k]) \in markers

\* C15: for a record that has a title, the type is "apartment" when the
\* apartment marker occurs in the title or the URL, else "house" when "casa"
\* or "vila" occurs in either, else "land" when the land marker occurs in
\* either, else "unknown".
C15_TypeByKeyword ==
    (call.fn = "property_type" /\ call.arg.title.present) =>
        call.res = IF InEither(call.arg, {"apartament"}) THEN "apartment"
                   ELSE IF InEither(call.arg, {"casa", "vila"}) THEN "house"
                   ELSE IF InEither(call.arg, {"teren"}) THEN "land"
                   ELSE "unknown"

\* C15 for URLs that do not hold "vila"
C15_VilaInTitleOnly ==
    (/\ call.fn = "property_type" /\ call.arg.title.present
     /\ ~Contains(Lower(call.arg.url.text), "vila")) =>
        call.res = IF InEither(call.arg, {"apartament"}) THEN "apartment"
                   ELSE IF InEither(call.arg, {"casa", "vila"}) THEN "house"
                   ELSE IF InEither(call.arg, {"teren"}) THEN "land"
                   ELSE "unknown"

\* ------------------------------------------------------ BaseScraper.clean_price
\* longest price text, in atoms
MaxPriceAtoms == 5

\* a price text is a sequence of atoms: a group of digits, a dot, a comma, a
\* space, the currency code, the currency sign ({euro} stands for U+20AC) or
\* a letter
DigitGroups == {"100", "000", "50"}
PriceAtoms == DigitGroups \cup {".", ",", " ", "EUR", "{euro}", "x"}
PriceTexts == UNION {[1..k -> PriceAtoms] : k \in 0..MaxPriceAtoms}

\* the characters of a group of digits
DigitsOf(a) ==
    CASE a = "100" -> <<1, 0, 0>>
      [] a = "000" -> <<0, 0, 0>>
      [] a = "50" -> <<5, 0>>
      [] OTHER -> <<>>

\* an optional float, written exactly: the digits before the point without
\* leading zeros, those after it without trailing zeros
NoPrice == [raised |-> FALSE, null |-> TRUE, int |-> <<>>, frac |-> <<>>]
ValueError == [raised |-> TRUE, null |-> TRUE, int |-> <<>>, frac |-> <<>>]
RECURSIVE DropLeadingZeros(_)
DropLeadingZeros(d) == IF d # <<>> /\ Head(d) = 0 THEN DropLeadingZeros(Tail(d)) ELSE d
RECURSIVE DropTrailingZeros(_)
DropTrailingZeros(d) ==
    IF d # <<>> /\ d[Len(d)] = 0 THEN DropTrailingZeros(SubSeq(d, 1, Len(d) - 1)) ELSE d
Float(intDigits, fracDigits) ==
    [raised |-> FALSE, null |-> FALSE,
     int |-> DropLeadingZeros(intDigits), frac |-> DropTrailingZeros(fracDigits)]

\* str.upper(), atom by atom
UpperAtom(a) == IF a = "x" THEN "X" ELSE a
Upper(t) == [k \in 1..Len(t) |-> UpperAtom(t[k])]

\* str.replace(old, new) for an old that is one atom; new is a sequence
RECURSIVE Replace(_, _, _)
Replace(t, old, new) ==
    IF t = <<>> THEN <<>>
    ELSE (IF Head(t) = old THEN new ELSE <<Head(t)>>) \o Replace(Tail(t), old, new)

\* re.search(r'[\d\.]+', t): the leftmost longest run of digits and points
IsNumeric(a) == a \in DigitGroups \cup {"."}
RECURSIVE NumericRun(_)
NumericRun(t) == IF t # <<>> /\ IsNumeric(Head(t)) THEN <<Head(t)>> \o NumericRun(Tail(t)) ELSE <<>>
RECURSIVE SearchNumeric(_)
SearchNumeric(t) ==
    IF t = <<>> THEN <<>>
    ELSE IF IsNumeric(Head(t)) THEN NumericRun(t)
    ELSE SearchNumeric(Tail(t))

\* the digits of the atoms of t, in order
RECURSIVE Digits(_)
Digits(t) == IF t = <<>> THEN <<>> ELSE DigitsOf(Head(t)) \o Digits(Tail(t))

\* float(s) for an s made of digits and points: one point at most and one
\* digit at least, else ValueError
ToFloat(run) ==
    LET points == {k \in 1..Len(run) : run[k] = "."}
    IN IF Cardinality(points) > 1 \/ Digits(run) = <<>> THEN ValueError
       ELSE IF points = {} THEN Float(Digits(run), <<>>)
       ELSE LET p == CHOOSE k \in points : TRUE
            IN Float(Digits(SubSeq(run, 1, p - 1)), Digits(SubSeq(run, p + 1, Len(run))))

\* the body of the try block of clean_price
CleanPriceTry(price_str) ==
    LET cleaned == Strip(Replace(Replace(Upper(price_str), "EUR", <<>>), "{euro}", <<>>))
        standard == IF Contains(cleaned, ",") /\ Contains(cleaned, ".")
                    THEN Replace(Replace(cleaned, ".", <<>>), ",", <<".">>)
                    ELSE IF Contains(cleaned, ",") THEN Replace(cleaned, ",", <<".">>)
                    ELSE Replace(cleaned, ".", <<>>)
        match == SearchNumeric(standard)
    IN IF match = <<>> THEN NoPrice ELSE ToFloat(match)

clean_price_uncaught(price_str) ==
    IF price_str = <<>> THEN NoPrice ELSE CleanPriceTry(price_str)

\* BaseScraper.clean_price: except Exception returns None
clean_price(price_str) ==
    IF price_str = <<>> THEN NoPrice
    ELSE IF CleanPriceTry(price_str).raised THEN NoPrice
    ELSE CleanPriceTry(price_str)

CallCleanPrice ==
    /\ call.fn = "none"
    /\ \E price_str \in PriceTexts :
        call' = [fn |-> "clean_price", arg |-> price_str, res |-> clean_price(price_str)]
    /\ UNCHANGED <<pipeline, crawler>>

PriceNext == CallCleanPrice \/ Return

PriceSpec == Init /\ [][PriceNext]_vars

\* 100000.0 and 100000.50
OneHundredThousand == Float(<<1, 0, 0, 0, 0, 0>>, <<>>)
OneHundredThousandAndAHalf == Float(<<1, 0, 0, 0, 0, 0>>, <<5>>)

\* texts made of groups of digits and dots only, with a group of digits
GroupedDigits(t) ==
    /\ \A k \in 1..Len(t) : t[k] \in DigitGroups \cup {"."}
    /\ \E k \in 1..Len(t) : t[k] \in DigitGroups

\* C16: clean_price reads dots as thousand separators and a comma as the
\* decimal separator: "100.000 EUR" gives 100000.0, "100.000,50" and
\* "100000,50" give 100000.50, groups of digits with dots give the number
\* their digits spell, such groups followed by a comma and digits give that
\* number with the digits after the comma as decimals, an empty text or a text
\* without digit gives null, and no text makes it raise.
C16_RomanianPrice ==
    call.fn = "clean_price" =>
        LET t == call.arg
        IN /\ ~call.res.raised
           /\ t = <<"100", ".", "000", " ", "EUR">> => call.res = OneHundredThousand
           /\ t = <<"100", ".", "000", ",", "50">> => call.res = OneHundredThousandAndAHalf
           /\ t = <<"100", "000", ",", "50">> => call.res = OneHundredThousandAndAHalf
           /\ GroupedDigits(t) => call.res = Float(Digits(t), <<>>)
           /\ \A k \in 2..(Len(t) - 1) :
                 (/\ t[k] = "," /\ GroupedDigits(SubSeq(t, 1, k - 1))
                  /\ \A j \in (k + 1)..Len(t) : t[j] \in DigitGroups)
                     => call.res = Float(Digits(SubSeq(t, 1, k - 1)),
                                         Digits(SubSeq(t, k + 1, Len(t))))
           /\ (\A k \in 1..Len(t) : t[k] \notin DigitGroups) => call.res = NoPrice

\* "100.000,50" was cleaned to 100000.50
C16_Witness ==
    /\ call.fn = "clean_price"
    /\ call.arg = <<"100", ".", "000", ",", "50">>
    /\ call.res = OneHundredThousandAndAHalf

\* C17: each of "100.000 EUR", "100,000" and the euro sign followed by
\* "100.000" gives 100000.0.
C17_DocstringVariations ==
    call.fn = "clean_price" =>
        /\ call.arg = <<"100", ".", "000", " ", "EUR">> => call.res = OneHundredThousand
        /\ call.arg = <<"100", ",", "000">> => call.res = OneHundredThousand
        /\ call.arg = <<"{euro}", "100", ".", "000">> => call.res = OneHundredThousand

\* ------------------------------------------- Publi24ListingParser._flatten_features
\* most items of an additionalProperty list
MaxProps == 2

\* a JSON value met under "name" or "value": v is its JSON literal;
\* "missing" is a key that is not in the object
JsonMissing == [t |-> "missing", v |-> ""]
JsonNull == [t |-> "null", v |-> "null"]
JsonStr(s) == [t |-> "str", v |-> s]
JsonNum(s) == [t |-> "num", v |-> s]
JsonBool(s) == [t |-> "bool", v |-> s]

PropNames == {JsonMissing, JsonNull, JsonStr(""), JsonStr("Etaj"), JsonStr("1"),
              JsonNum("1")}
PropValues == {JsonMissing, JsonNull, JsonStr(""), JsonStr("1"), JsonNum("0"),
               JsonNum("1"), JsonBool("false"), JsonBool("true")}

\* the items of the list: objects with the two keys, and an item that is no
\* object
PropItems == [dict : {TRUE}, name : PropNames, value : PropValues]
                 \cup {[dict |-> FALSE, name |-> JsonMissing, value |-> JsonMissing]}

\* item_offered.get("additionalProperty", []): a list, or something else
FeatureInputs ==
    {[list |-> FALSE, items |-> <<>>]}
        \cup {[list |-> TRUE, items |-> q] :
                q \in UNION {[1..k -> PropItems] : k \in 0..MaxProps}}

\* dict.get: a key that is missing gives None
Get(x) == IF x.t = "missing" THEN JsonNull ELSE x

\* truth value of a Python object loaded from JSON
Bool(x) ==
    CASE x.t = "null" -> FALSE
      [] x.t = "str" -> x.v # ""
      [] x.t = "num" -> x.v # "0"
      [] x.t = "bool" -> x.v = "true"
      [] OTHER -> FALSE

\* str() of a Python object loaded from JSON
Str(x) ==
    CASE x.t = "bool" -> (IF x.v = "true" THEN "True" ELSE "False")
      [] x.t = "null" -> "None"
      [] OTHER -> x.v

EmptyDict == [k \in {} |-> ""]

\* lines 156-159: the item is a dict and its name and value are both truthy
Keeps(prop) == prop.dict /\ Bool(Get(prop.name)) /\ Bool(Get(prop.value))

\* lines 155-160: the loop over the first n items; a later pair replaces an
\* earlier one of the same str(name)
RECURSIVE FlattenLoop(_, _)
FlattenLoop(items, n) ==
    IF n = 0 THEN EmptyDict
    ELSE LET features_dict == FlattenLoop(items, n - 1)
             prop == items[n]
         IN IF Keeps(prop)
            THEN (Str(Get(prop.name)) :> Str(Get(prop.value))) @@ features_dict
            ELSE features_dict

flatten_features(in) ==
    IF ~in.list THEN EmptyDict ELSE FlattenLoop(in.items, Len(in.items))

CallFlattenFeatures ==
    /\ call.fn = "none"
    /\ \E in \in FeatureInputs :
        call' = [fn |-> "_flatten_features", arg |-> in, res |-> flatten_features(in)]
    /\ UNCHANGED <<pipeline, crawler>>

FeaturesNext == CallFlattenFeatures \/ Return

FeaturesSpec == Init /\ [][FeaturesNext]_vars

\* the pair has the key and the key does not hold null
Carried(x) == x.t \notin {"missing", "null"}
CarriesBoth(prop) == prop.dict /\ Carried(prop.name) /\ Carried(prop.value)

\* positions of the pairs that carry both a name and a value
Carrying(items) == {k \in 1..Len(items) : CarriesBoth(items[k])}

\* the mapping of the carrying pairs, the last pair of a name winning
MappingOf(items) ==
    [key \in {Str(items[k].name) : k \in Carrying(items)} |->
        LET last == CHOOSE k \in Carrying(items) :
                        /\ Str(items[k].name) = key
                        /\ \A j \in Carrying(items) :
                               Str(items[j].name) = key => j <= k
        IN Str(items[last].value)]

\* C21: _flatten_features gives the empty mapping for a non-list and, for a
\* list, the string-coerced mapping of exactly the pairs that carry both a
\* name and a value, so a pair whose value is 0 or false appears.
C21_FlattenFeatures ==
    call.fn = "_flatten_features" =>
        call.res = IF call.arg.list THEN MappingOf(call.arg.items) ELSE EmptyDict

\* C21 for lists whose names and values are all truthy where they are carried
C21_TruthyPairs ==
    (/\ call.fn = "_flatten_features"
     /\ \A k \in Carrying(call.arg.items) :
            Bool(call.arg.items[k].name) /\ Bool(call.arg.items[k].value)) =>
        call.res = IF call.arg.list THEN MappingOf(call.arg.items) ELSE EmptyDict

\* -------------------------------------------------- Publi24ListingParser.fetch_html
\* longest response body, in atoms
MaxBodyAtoms == 3

\* response.text, a sequence of atoms
BodyAtoms == {"<html>", "<script>", "captcha", "x"}
Bodies == UNION {[1..k -> BodyAtoms] : k \in 0..MaxBodyAtoms}

\* what httpx.get gives: a response with a status code, or a RequestError
\* (timeout, connection refused, ...)
StatusCodes == {200, 204, 301, 404, 500}
Responses ==
    [sent : {TRUE}, status : StatusCodes, text : Bodies]
        \cup {[sent |-> FALSE, status |-> 0, text |-> <<>>]}

\* what open(settings.PARSER_DEBUG_FILE, "w") and f.write give
DebugFileStates == {"writable", "open-fails", "write-fails"}

FetchInputs == [response : Responses, debug : DebugFileStates]

\* the return value of fetch_html and what it left in the debug file
NoDocument == [none |-> TRUE, text |-> <<>>]
Document(t) == [none |-> FALSE, text |-> t]
Fetched(ret, saved) == [ret |-> ret, saved |-> saved]

\* response.is_success: a 2xx status
IsSuccess(status) == status >= 200 /\ status < 300

\* response.raise_for_status() raises HTTPStatusError for every status that
\* is no success (httpx.get does not follow redirects)
IsErrorStatus(status) == ~IsSuccess(status)

\* lines 42-62: the request, raise_for_status, the write of the debug file
\* and the return are in one try block whose last handler is except
\* Exception, so an OSError of open or write gives None
fetch_html(in) ==
    IF ~in.response.sent THEN Fetched(NoDocument, FALSE)
    ELSE IF IsErrorStatus(in.response.status) THEN Fetched(NoDocument, FALSE)
    ELSE IF in.debug # "writable" THEN Fetched(NoDocument, FALSE)
    ELSE Fetched(Document(in.response.text), TRUE)

CallFetchHtml ==
    /\ call.fn = "none"
    /\ \E in \in FetchInputs :
        call' = [fn |-> "fetch_html", arg |-> in, res |-> fetch_html(in)]
    /\ UNCHANGED <<pipeline, crawler>>

FetchNext == CallFetchHtml \/ Return

FetchSpec == Init /\ [][FetchNext]_vars

\* C23: fetch_html returns the fetched document for every 2xx response,
\* whether or not the debug file could be written, and returns a fetch
\* failure only for a non-2xx response or a transport error.
C23_DebugFileIsSideChannel ==
    call.fn = "fetch_html" =>
        /\ (call.arg.response.sent /\ IsSuccess(call.arg.response.status)) =>
               call.res.ret = Document(call.arg.response.text)
        /\ call.res.ret.none =>
               (~call.arg.response.sent \/ ~IsSuccess(call.arg.response.status))

\* C23 for the fetches whose debug file can be written, and the failure for
\* error statuses and transport errors
C23_WhenDebugFileWritable ==
    call.fn = "fetch_html" =>
        /\ (/\ call.arg.response.sent /\ IsSuccess(call.arg.response.status)
            /\ call.arg.debug = "writable") =>
               call.res.ret = Document(call.arg.response.text)
        /\ (~call.arg.response.sent \/ IsErrorStatus(call.arg.response.status)) =>
               call.res.ret.none

\* --------------------------------- asking_price_eur (_parse_numeric, process_urls)
\* longest price text of the offers, in atoms
MaxNumberAtoms == 3

\* the text of a number: a sign, groups of digits, the point, a space, the
\* spelling of not-a-number, a letter
NumberAtoms == {"-", "100", "50", ".", " ", "nan", "x"}
NumberTexts == UNION {[1..k -> NumberAtoms] : k \in 0..MaxNumberAtoms}

Unsigned(q) == IF q # <<>> /\ Head(q) = "-" THEN Tail(q) ELSE q
IsDigits(q) == q # <<>> /\ \A k \in 1..Len(q) : q[k] \in DigitGroups

\* a number literal of JSON: -? digits (. digits)?
IsJsonNumber(q) ==
    \/ IsDigits(Unsigned(q))
    \/ \E p \in 1..Len(Unsigned(q)) :
        /\ Unsigned(q)[p] = "."
        /\ IsDigits(SubSeq(Unsigned(q), 1, p - 1))
        /\ IsDigits(SubSeq(Unsigned(q), p + 1, Len(Unsigned(q))))

\* offers.get("price") after json.loads: the key is missing, or holds null,
\* a boolean, a number (json.loads reads NaN as a number too) or a string
OfferPrices ==
    {[t |-> "missing", v |-> <<>>], [t |-> "null", v |-> <<>>],
     [t |-> "bool", v |-> <<"true">>], [t |-> "bool", v |-> <<"false">>]}
        \cup {[t |-> "num", v |-> q] : q \in {r \in NumberTexts : IsJsonNumber(r)}}
        \cup {[t |-> "num", v |-> <<"nan">>]}
        \cup {[t |-> "str", v |-> q] : q \in NumberTexts}

\* an optional float, written exactly
NoNumber == [null |-> TRUE, nan |-> FALSE, neg |-> FALSE, int |-> <<>>, frac |-> <<>>]
NaN == [null |-> FALSE, nan |-> TRUE, neg |-> FALSE, int |-> <<>>, frac |-> <<>>]
Real(neg, intDigits, fracDigits) ==
    [null |-> FALSE, nan |-> FALSE, neg |-> neg,
     int |-> DropLeadingZeros(intDigits), frac |-> DropTrailingZeros(fracDigits)]
Zero == Real(FALSE, <<>>, <<>>)

\* the number spelt by a sign, digits and at most one point
NumberOf(q) ==
    LET u == Unsigned(q)
        points == {k \in 1..Len(u) : u[k] = "."}
    IN IF points = {} THEN Real(u # q, Digits(u), <<>>)
       ELSE LET p == CHOOSE k \in points : TRUE
            IN Real(u # q, Digits(SubSeq(u, 1, p - 1)), Digits(SubSeq(u, p + 1, Len(u))))

\* float(s) of a string: surrounding whitespace is dropped; a sign, then
\* "nan" or digits with at most one point and one digit at least; anything
\* else raises ValueError
FloatOfStr(q) ==
    LET u == Unsigned(Strip(q))
    IN IF u = <<"nan">> THEN NaN
       ELSE IF /\ \A k \in 1..Len(u) : u[k] \in DigitGroups \cup {"."}
               /\ Cardinality({k \in 1..Len(u) : u[k] = "."}) <= 1
               /\ \E k \in 1..Len(u) : u[k] \in DigitGroups
       THEN NumberOf(Strip(q))
       ELSE NoNumber

\* _parse_numeric(value, is_float=True): None gives None; float(value), and
\* None when it raises ValueError or TypeError
parse_numeric(value) ==
    CASE value.t \in {"missing", "null"} -> NoNumber
      [] value.t = "bool" -> Real(FALSE, IF value.v = <<"true">> THEN <<1>> ELSE <<>>, <<>>)
      [] value.t = "num" -> (IF value.v = <<"nan">> THEN NaN ELSE NumberOf(value.v))
      [] value.t = "str" -> FloatOfStr(value.v)
      [] OTHER -> NoNumber

\* lines 175-181 of process_urls: price = parsed_data.get("price"); None
\* becomes 0.0; Listing(asking_price_eur=price)
asking_price_eur(value) ==
    IF parse_numeric(value).null THEN Zero ELSE parse_numeric(value)

CallAskingPrice ==
    /\ call.fn = "none"
    /\ \E value \in OfferPrices :
        call' = [fn |-> "asking_price_eur", arg |-> value, res |-> asking_price_eur(value)]
    /\ UNCHANGED <<pipeline, crawler>>

AskingPriceNext == CallAskingPrice \/ Return

AskingPriceSpec == Init /\ [][AskingPriceNext]_vars

\* a number that is zero or more
NonNegative(x) == ~x.null /\ ~x.nan /\ (~x.neg \/ (x.int = <<>> /\ x.frac = <<>>))

\* the price is a number, or a string that holds a number literal
EncodesNumber(value) == value.t \in {"num", "str"} /\ IsJsonNumber(value.v)

\* the price is missing, or a string without any digit that does not spell
\* not-a-number
NoNumberIn(value) ==
    \/ value.t \in {"missing", "null"}
    \/ /\ value.t = "str"
       /\ \A k \in 1..Len(value.v) : value.v[k] \notin DigitGroups \cup {"nan"}

\* C22: the asking_price_eur of a Listing is never absent and never negative;
\* it is the value of the offers price when that is a number or a string
\* holding a number, and 0 when the price is missing or holds no number.
C22_AskingPrice ==
    call.fn = "asking_price_eur" =>
        /\ NonNegative(call.res)
        /\ EncodesNumber(call.arg) => call.res = NumberOf(call.arg.v)
        /\ NoNumberIn(call.arg) => call.res = Zero

\* C22 without the sign: the price is never absent, it is the value of the
\* offers price or 0, and it is not negative unless the offers price holds
\* a minus sign or not-a-number
C22_UnlessNegativeOrNaN ==
    call.fn = "asking_price_eur" =>
        /\ ~call.res.null
        /\ (\A k \in 1..Len(call.arg.v) : call.arg.v[k] \notin {"-", "nan"}) =>
               NonNegative(call.res)
        /\ EncodesNumber(call.arg) => call.res = NumberOf(call.arg.v)
        /\ NoNumberIn(call.arg) => call.res = Zero

\* =============================================================== process_urls
RunEnded == pc \in {"idle", "done", "aborted"}

AllOk == /\ pc = "done" /\ fileState = "ok"
         /\ \A k \in 1..Len(urls) : outcome[k] \in {Dup, Persisted}

\* process_urls is called: open and read the file, build parser and geolocator,
\* open the session
StartRun ==
    /\ RunEnded
    /\ taken < MaxTaken
    /\ \E st \in FileStates, ls \in FileLines :
        LET f == [state |-> st, lines |-> ls]
            r == ReadUrls(f)
        IN /\ Len(r.urls) <= MaxTaken - taken
           /\ fileState' = st
           /\ urls' = r.urls
           /\ outcome' = [k \in 1..Len(r.urls) |-> None]
           /\ pc' = CASE r.status = "ok" -> "loop"
                      [] r.status = "returned" -> "done"
                      [] OTHER -> "aborted"
           /\ hist' = [sameAsPrev |-> pc = "done" /\ fileState = "ok"
                                      /\ r.status = "ok" /\ r.urls = urls,
                       prevAllOk |-> AllOk,
                       rows0 |-> Rows]
    /\ i' = 0
    /\ cur' = CurInit
    /\ cnt' = CntInit
    /\ sinceGeo' = MaxGap
    /\ UNCHANGED <<taken, store, session, nextId, nTxn, inFlight, failedTx>>
    /\ UNCHANGED <<call, crawler>>

\* for i, url in enumerate(urls, 1): the next URL is taken up
NextUrl ==
    /\ pc = "loop"
    /\ i < Len(urls)
    /\ i' = i + 1
    /\ taken' = taken + 1
    /\ pc' = "check"
    /\ cur' = [CurInit EXCEPT !.known = HasUrl(listsC, urls[i + 1]),
                              !.at = [fetch |-> cnt.fetch, extract |-> cnt.extract,
                                      rows |-> Rows]]
    /\ UNCHANGED <<fileState, urls, outcome, store, session, nextId, nTxn, cnt,
                   sinceGeo, inFlight, failedTx, hist>>
    /\ UNCHANGED <<call, crawler>>

\* the list is exhausted: the session's context manager closes the session,
\* which discards its open transaction
EndRun ==
    /\ pc = "loop"
    /\ i = Len(urls)
    /\ pc' = "done"
    /\ propsP' = {} /\ listsP' = {} /\ sessInactive' = FALSE
    /\ UNCHANGED <<taken, fileState, urls, i, outcome, store, nextId, nTxn, cur, cnt,
                   sinceGeo, inFlight, failedTx, hist>>
    /\ UNCHANGED <<call, crawler>>

\* ------------------------------------------------------ the duplicate check
\* session.execute(select ...) raises SQLAlchemyError (connection error, or
\* PendingRollbackError when the session's transaction is inactive)
CheckRaises ==
    /\ pc = "check"
    /\ cnt' = [cnt EXCEPT !.check = @ + 1]
    /\ cur' = [cur EXCEPT !.err = "check"]
    /\ pc' = "except_sql"
    /\ UNCHANGED <<taken, fileState, urls, i, outcome, store, session, nextId, nTxn,
                   sinceGeo, inFlight, failedTx, hist>>
    /\ UNCHANGED <<call, crawler>>

CheckFoundNoSkip ==
    /\ pc = "check"
    /\ ~sessInactive
    /\ Existing(urls[i])
    /\ cnt' = [cnt EXCEPT !.check = @ + 1]
    /\ pc' = "fetch"
    /\ UNCHANGED <<taken, fileState, urls, i, outcome, store, session, nextId, nTxn, cur,
                   sinceGeo, inFlight, failedTx, hist>>
    /\ UNCHANGED <<call, crawler>>

\* existing_listing is found: log and continue, which goes to the next URL
\* without reaching the sleep at the end of the loop body
CheckFound ==
    /\ pc = "check"
    /\ ~sessInactive
    /\ Existing(urls[i])
    /\ cnt' = [cnt EXCEPT !.check = @ + 1]
    /\ outcome' = [outcome EXCEPT ![i] = Dup]
    /\ pc' = "loop"
    /\ UNCHANGED <<taken, fileState, urls, i, store, session, nextId, nTxn, cur,
                   sinceGeo, inFlight, failedTx, hist>>
    /\ UNCHANGED <<call, crawler>>

\* no existing listing
CheckFresh ==
    /\ pc = "check"
    /\ ~sessInactive
    /\ ~Existing(urls[i])
    /\ cnt' = [cnt EXCEPT !.check = @ + 1]
    /\ pc' = "fetch"
    /\ UNCHANGED <<taken, fileState, urls, i, outcome, store, session, nextId, nTxn, cur,
                   sinceGeo, inFlight, failedTx, hist>>
    /\ UNCHANGED <<call, crawler>>

\* ------------------------------------------------------- fetch and extraction
\* parser.fetch_html returns the document
FetchOk ==
    /\ pc = "fetch"
    /\ cnt' = [cnt EXCEPT !.fetch = @ + 1]
    /\ pc' = "extract"
    /\ UNCHANGED <<taken, fileState, urls, i, outcome, store, session, nextId, nTxn, cur,
                   sinceGeo, inFlight, failedTx, hist>>
    /\ UNCHANGED <<call, crawler>>

\* parser.fetch_html returns None (it catches every exception): continue
FetchNone ==
    /\ pc = "fetch"
    /\ cnt' = [cnt EXCEPT !.fetch = @ + 1]
    /\ outcome' = [outcome EXCEPT ![i] = Failed]
    /\ cur' = [cur EXCEPT !.err = "fetch"]
    /\ pc' = "loop"
    /\ UNCHANGED <<taken, fileState, urls, i, store, session, nextId, nTxn,
                   sinceGeo, inFlight, failedTx, hist>>
    /\ UNCHANGED <<call, crawler>>

\* parser.extract_json_ld returns the accepted object
ExtractOk ==
    /\ pc = "extract"
    /\ cnt' = [cnt EXCEPT !.extract = @ + 1]
    /\ pc' = "parse"
    /\ UNCHANGED <<taken, fileState, urls, i, outcome, store, session, nextId, nTxn, cur,
                   sinceGeo, inFlight, failedTx, hist>>
    /\ UNCHANGED <<call, crawler>>

\* parser.extract_json_ld returns None: continue
ExtractNone ==
    /\ pc = "extract"
    /\ cnt' = [cnt EXCEPT !.extract = @ + 1]
    /\ outcome' = [outcome EXCEPT ![i] = Failed]
    /\ cur' = [cur EXCEPT !.err = "extract"]
    /\ pc' = "loop"
    /\ UNCHANGED <<taken, fileState, urls, i, store, session, nextId, nTxn,
                   sinceGeo, inFlight, failedTx, hist>>
    /\ UNCHANGED <<call, crawler>>

\* parser.extract_json_ld raises (it catches JSONDecodeError only)
ExtractRaises ==
    /\ pc = "extract"
    /\ cnt' = [cnt EXCEPT !.extract = @ + 1]
    /\ cur' = [cur EXCEPT !.err = "extract"]
    /\ pc' = "except_other"
    /\ UNCHANGED <<taken, fileState, urls, i, outcome, store, session, nextId, nTxn,
                   sinceGeo, inFlight, failedTx, hist>>
    /\ UNCHANGED <<call, crawler>>

\* the accepted JSON-LD object, as far as the control flow of the write path
\* depends on it: "name", whether "offers" is an object (a value with .get),
\* and whether addressLocality and addressRegion are both there
ListingTitles == {Absent, [present |-> TRUE, text |-> <<"Apartament">>],
                  [present |-> TRUE, text |-> <<"x">>]}
ListingObjects == [name : ListingTitles, offersIsDict : BOOLEAN, located : BOOLEAN]

\* the text of a line of the input file: the URLs differ in their keywords
UrlText(u) ==
    CASE u % 3 = 1 -> <<"apartament">>
      [] u % 3 = 2 -> <<"x", "casa">>
      [] OTHER -> <<"x">>

\* parse_listing: offers.get raises AttributeError when offers is no object
ParseFailed == [raised |-> TRUE, title |-> Absent, located |-> FALSE]
parse_listing(json_data) ==
    IF ~json_data.offersIsDict THEN ParseFailed
    ELSE [raised |-> FALSE, title |-> json_data.name, located |-> json_data.located]

\* parse_listing and lines 121-137 of process_urls raise for this object
\* and this URL
NormalisationRaises(json_data, url) ==
    \/ parse_listing(json_data).raised
    \/ property_type([title |-> parse_listing(json_data).title,
                      url |-> [present |-> TRUE, text |-> UrlText(url)]]) = "raised"

TitleOf(json_data) == IF json_data.name.present THEN "text" ELSE "null"

\* parse_listing, extract_floor, extract_total_rooms and the type derivation
\* succeed; located: location_locality and location_region are both present
ParseOk ==
    /\ pc = "parse"
    /\ \E json_data \in ListingObjects :
        /\ ~NormalisationRaises(json_data, urls[i])
        /\ pc' = IF parse_listing(json_data).located THEN "geocode" ELSE "flush"
        /\ cur' = [cur EXCEPT !.geo = IF parse_listing(json_data).located
                                      THEN "none" ELSE "skipped",
                              !.title = TitleOf(json_data)]
    /\ UNCHANGED <<taken, fileState, urls, i, outcome, store, session, nextId, nTxn, cnt,
                   sinceGeo, inFlight, failedTx, hist>>
    /\ UNCHANGED <<call, crawler>>

\* parse_listing or the normalisation raises (an offers value without .get,
\* a null title at .lower())
ParseRaises ==
    /\ pc = "parse"
    /\ \E json_data \in ListingObjects :
        /\ NormalisationRaises(json_data, urls[i])
        /\ cur' = [cur EXCEPT !.err = "parse", !.title = TitleOf(json_data)]
    /\ pc' = "except_other"
    /\ UNCHANGED <<taken, fileState, urls, i, outcome, store, session, nextId, nTxn, cnt,
                   sinceGeo, inFlight, failedTx, hist>>
    /\ UNCHANGED <<call, crawler>>

\* ------------------------------------------------------------------ geocoding
\* await asyncio.to_thread(geolocator.geocode, search_query): the call starts
GeocodeCall ==
    /\ pc = "geocode"
    /\ inFlight' = inFlight + 1
    /\ cur' = [cur EXCEPT !.geoCalls = @ + 1]
    /\ pc' = "geo_wait"
    /\ UNCHANGED <<taken, fileState, urls, i, outcome, store, session, nextId, nTxn, cnt,
                   sinceGeo, failedTx, hist>>
    /\ UNCHANGED <<call, crawler>>

GeocodeReturnFatal ==
    /\ pc = "geo_wait"
    /\ \E res \in {"match", "miss", "error"} :
        /\ cur' = [cur EXCEPT !.geo = res,
                              !.loc = IF res = "match" THEN "POINT" ELSE "NULL",
                              !.err = IF res = "match" THEN @ ELSE "geocode"]
        /\ pc' = IF res = "match" THEN "geo_sleep" ELSE "except_other"
    /\ inFlight' = inFlight - 1
    /\ sinceGeo' = 0
    /\ UNCHANGED <<taken, fileState, urls, i, outcome, store, session, nextId, nTxn, cnt,
                   failedTx, hist>>
    /\ UNCHANGED <<call, crawler>>

\* the call returns a location (match), returns None (miss) or raises (error,
\* caught by the inner except Exception); location_wkt is set on a match only
GeocodeReturn ==
    /\ pc = "geo_wait"
    /\ \E res \in {"match", "miss", "error"} :
        /\ cur' = [cur EXCEPT !.geo = res,
                              !.loc = IF res = "match" THEN "POINT" ELSE "NULL"]
    /\ inFlight' = inFlight - 1
    /\ sinceGeo' = 0
    /\ pc' = "geo_sleep"
    /\ UNCHANGED <<taken, fileState, urls, i, outcome, store, session, nextId, nTxn, cnt,
                   failedTx, hist>>
    /\ UNCHANGED <<call, crawler>>

GeoSleepOnSuccessOnly ==
    /\ pc = "geo_sleep"
    /\ sinceGeo' = IF cur.geo = "error" THEN sinceGeo
                   ELSE Elapse(sinceGeo, GEOCODER_DELAY)
    /\ pc' = "flush"
    /\ UNCHANGED <<taken, fileState, urls, i, outcome, store, session, nextId, nTxn, cur,
                   cnt, inFlight, failedTx, hist>>
    /\ UNCHANGED <<call, crawler>>

\* await asyncio.sleep(settings.GEOCODER_DELAY), after the try/except
GeoSleep ==
    /\ pc = "geo_sleep"
    /\ sinceGeo' = Elapse(sinceGeo, GEOCODER_DELAY)
    /\ pc' = "flush"
    /\ UNCHANGED <<taken, fileState, urls, i, outcome, store, session, nextId, nTxn, cur,
                   cnt, inFlight, failedTx, hist>>
    /\ UNCHANGED <<call, crawler>>

\* ---------------------------------------------------------------- persistence
\* new_property = Property(..., location=location_wkt)
NewProperty == [id |-> nextId, location |-> cur.loc]

\* new_listing = Listing(property_id=new_property.id, listing_url=url, ...)
NewListing == [property_id |-> cur.propId, listing_url |-> urls[i]]

\* session.add(new_property); await session.flush() succeeds
FlushOk ==
    /\ pc = "flush"
    /\ propsP' = propsP \cup {NewProperty}
    /\ nextId' = nextId + 1
    /\ cur' = [cur EXCEPT !.propId = nextId]
    /\ pc' = "commit"
    /\ UNCHANGED <<taken, fileState, urls, i, outcome, store, listsP, sessInactive, nTxn,
                   cnt, sinceGeo, inFlight, failedTx, hist>>
    /\ UNCHANGED <<call, crawler>>

\* the flush raises SQLAlchemyError: the INSERT did not happen, and a failed
\* flush leaves the session's transaction inactive until it is rolled back
FlushSqlError ==
    /\ pc = "flush"
    /\ sessInactive' = TRUE
    /\ cur' = [cur EXCEPT !.err = "flush_sql"]
    /\ pc' = "except_sql"
    /\ UNCHANGED <<taken, fileState, urls, i, outcome, store, propsP, listsP, nextId, nTxn,
                   cnt, sinceGeo, inFlight, failedTx, hist>>
    /\ UNCHANGED <<call, crawler>>

\* the flush raises an exception that is no SQLAlchemyError; a failed flush
\* leaves the session's transaction inactive whatever was raised
FlushOtherError ==
    /\ pc = "flush"
    /\ sessInactive' = TRUE
    /\ cur' = [cur EXCEPT !.err = "flush_other"]
    /\ pc' = "except_other"
    /\ UNCHANGED <<taken, fileState, urls, i, outcome, store, propsP, listsP, nextId, nTxn,
                   cnt, sinceGeo, inFlight, failedTx, hist>>
    /\ UNCHANGED <<call, crawler>>

\* session.add(new_listing); await session.commit() succeeds: every row of
\* the open transaction becomes durable
CommitOk ==
    /\ pc = "commit"
    /\ \A l \in listsP \cup {NewListing} : ~UniqueViolation(l)
    /\ propsC' = propsC \cup Committed(propsP, nTxn + 1)
    /\ listsC' = listsC \cup Committed(listsP \cup {NewListing}, nTxn + 1)
    /\ propsP' = {} /\ listsP' = {}
    /\ nTxn' = nTxn + 1
    /\ outcome' = [outcome EXCEPT ![i] = Persisted]
    /\ pc' = "delay"
    /\ UNCHANGED <<taken, fileState, urls, i, sessInactive, nextId, cur, cnt,
                   sinceGeo, inFlight, failedTx, hist>>
    /\ UNCHANGED <<call, crawler>>

\* the Listing insert or the commit raises SQLAlchemyError (IntegrityError of
\* the unique constraint included)
CommitSqlError ==
    /\ pc = "commit"
    /\ listsP' = listsP \cup {NewListing}
    /\ sessInactive' = TRUE
    /\ failedTx' = failedTx \cup {cur.propId}
    /\ cur' = [cur EXCEPT !.err = "commit_sql"]
    /\ pc' = "except_sql"
    /\ UNCHANGED <<taken, fileState, urls, i, outcome, store, propsP, nextId, nTxn, cnt,
                   sinceGeo, inFlight, hist>>
    /\ UNCHANGED <<call, crawler>>

\* an exception that is no SQLAlchemyError is raised between the flush and
\* the end of the commit, before or after session.add(new_listing); the
\* session's transaction stays usable (raised outside the session) or not
\* (raised inside commit)
CommitOtherError ==
    /\ pc = "commit"
    /\ \E added \in BOOLEAN :
        listsP' = IF added THEN listsP \cup {NewListing} ELSE listsP
    /\ sessInactive' \in BOOLEAN
    /\ cur' = [cur EXCEPT !.err = "commit_other"]
    /\ pc' = "except_other"
    /\ UNCHANGED <<taken, fileState, urls, i, outcome, store, propsP, nextId, nTxn, cnt,
                   sinceGeo, inFlight, failedTx, hist>>
    /\ UNCHANGED <<call, crawler>>

\* ------------------------------------------------------------------- handlers
RollbackSkipped ==
    /\ pc = "except_sql"
    /\ outcome' = [outcome EXCEPT ![i] = Failed]
    /\ sessInactive' = FALSE
    /\ pc' = "delay"
    /\ UNCHANGED <<taken, fileState, urls, i, store, propsP, listsP, nextId, nTxn, cur,
                   cnt, sinceGeo, inFlight, failedTx, hist>>
    /\ UNCHANGED <<call, crawler>>

\* except SQLAlchemyError: await session.rollback(); logger.error(...)
RollbackOk ==
    /\ pc = "except_sql"
    /\ propsP' = {} /\ listsP' = {} /\ sessInactive' = FALSE
    /\ outcome' = [outcome EXCEPT ![i] = Failed]
    /\ pc' = "delay"
    /\ UNCHANGED <<taken, fileState, urls, i, store, nextId, nTxn, cur, cnt,
                   sinceGeo, inFlight, failedTx, hist>>
    /\ UNCHANGED <<call, crawler>>

\* session.rollback() raises inside the handler: no handler of the same try
\* catches it, the exception leaves the loop and process_urls, and the
\* session's context manager closes the session
RollbackRaises ==
    /\ pc = "except_sql"
    /\ propsP' = {} /\ listsP' = {} /\ sessInactive' = FALSE
    /\ pc' = "aborted"
    /\ UNCHANGED <<taken, fileState, urls, i, outcome, store, nextId, nTxn, cur, cnt,
                   sinceGeo, inFlight, failedTx, hist>>
    /\ UNCHANGED <<call, crawler>>

\* except Exception: logger.error(...); the session is left as it is
OtherHandler ==
    /\ pc = "except_other"
    /\ outcome' = [outcome EXCEPT ![i] = Failed]
    /\ pc' = "delay"
    /\ UNCHANGED <<taken, fileState, urls, i, store, session, nextId, nTxn, cur, cnt,
                   sinceGeo, inFlight, failedTx, hist>>
    /\ UNCHANGED <<call, crawler>>

\* await asyncio.sleep(settings.PIPELINE_DELAY), the last statement of the body
PipelineSleep ==
    /\ pc = "delay"
    /\ cnt' = [cnt EXCEPT !.delay = @ + 1]
    /\ sinceGeo' = Elapse(sinceGeo, PIPELINE_DELAY)
    /\ pc' = "loop"
    /\ UNCHANGED <<taken, fileState, urls, i, outcome, store, session, nextId, nTxn, cur,
                   inFlight, failedTx, hist>>
    /\ UNCHANGED <<call, crawler>>

Next ==
    \/ StartRun \/ NextUrl \/ EndRun
    \/ CheckRaises \/ CheckFound \/ CheckFresh
    \/ FetchOk \/ FetchNone
    \/ ExtractOk \/ ExtractNone \/ ExtractRaises
    \/ ParseOk \/ ParseRaises
    \/ GeocodeCall \/ GeocodeReturn \/ GeoSleep
    \/ FlushOk \/ FlushSqlError \/ FlushOtherError
    \/ CommitOk \/ CommitSqlError \/ CommitOtherError
    \/ RollbackOk \/ RollbackRaises \/ OtherHandler
    \/ PipelineSleep

Spec == Init /\ [][Next]_vars

\* ====================================================================== claims

ListingsOf(url) == {l \in listsC : l.listing_url = url}

C2_UniqueListingUrl ==
    \A a, b \in listsC : a.listing_url = b.listing_url => a = b

\* a list that repeats a URL was processed: first occurrence persisted, second skipped
C2_Witness ==
    /\ pc = "done"
    /\ \E k1, k2 \in 1..Len(urls) :
        /\ k1 < k2 /\ urls[k1] = urls[k2]
        /\ outcome[k1] = Persisted /\ outcome[k2] = Dup

\* a Property whose Listing insert or commit raised SQLAlchemyError is not committed
C3_NeverCommitted == \A p \in propsC : p.id \notin failedTx

\* the handler's rollback, when it completes, empties the open transaction,
\* leaves the committed rows as they were and goes on to the delay
C3_RollbackStep ==
    (pc = "except_sql" /\ cur.err = "commit_sql" /\ pc' # "aborted") =>
        /\ propsP' = {} /\ listsP' = {}
        /\ store' = store
        /\ outcome'[i] = Failed
        /\ pc' = "delay"

\* from the delay the loop goes on to the next URL of the list
C3_ProceedStep ==
    /\ (pc = "delay" /\ cur.err = "commit_sql") =>
           pc' = "loop" /\ i' = i /\ store' = store /\ urls' = urls
    /\ (pc = "loop" /\ i < Len(urls)) => pc' = "check" /\ i' = i + 1

C4_NoOrphans ==
    /\ \A l \in listsC : \E p \in propsC : p.id = l.property_id /\ p.txn = l.txn
    /\ \A p \in propsC : Cardinality({l \in listsC : l.property_id = p.id}) = 1

\* C5: once the input file has been read, the run is never ended by an error
\* of a single URL: it ends only with every URL of the list at a terminal
\* outcome (duplicate-skipped, persisted or failed).
C5_RunCompletes ==
    (pc # "idle" /\ fileState = "ok" /\ RunEnded) =>
        /\ pc = "done"
        /\ \A k \in 1..Len(urls) : outcome[k] \in {Dup, Persisted, Failed}

C7_DelayAfterEveryUrl ==
    /\ pc = "loop" => cnt.delay = i
    /\ pc = "check" => cnt.delay = i - 1

PersistStages == {"flush_sql", "flush_other", "commit_sql", "commit_other"}

\* C8: after a geocoder miss or error the URL goes on to the insert with a
\* null location; it fails only on an error of the flush or the commit and
\* otherwise ends persisted with one Property (location null) and one
\* Listing; the geocoder was called once for it.
C8_GeocodeNeverFatal ==
    (i >= 1 /\ cur.geo \in {"miss", "error"}) =>
        /\ cur.geoCalls = 1
        /\ cur.loc = "NULL"
        /\ cur.err \in {"-"} \cup PersistStages
        /\ outcome[i] \in {None, Persisted, Failed}
        /\ (cur.err = "-" /\ pc \in {"delay", "loop", "done"}) => outcome[i] = Persisted
        /\ outcome[i] = Persisted =>
              /\ Cardinality({p \in propsC : p.id = cur.propId /\ p.location = "NULL"}) = 1
              /\ Cardinality({l \in listsC : l.property_id = cur.propId}) = 1
              /\ Cardinality(ListingsOf(urls[i])) = 1

\* a URL whose geocoder call raised was persisted
C8_Witness == i >= 1 /\ cur.geo = "error" /\ outcome[i] = Persisted

GeoDone == cur.geoCalls > 0 /\ pc \notin {"geo_wait", "geo_sleep"}

\* C9: at most one geocoder call is in flight, and after every geocoder call
\* (match, miss or error) the full GEOCODER_DELAY has elapsed before the code
\* goes on, hence before the next geocoder call starts.
C9_GeocoderSerialized ==
    /\ inFlight <= 1
    /\ pc = "geocode" => sinceGeo >= GEOCODER_DELAY
    /\ GeoDone => sinceGeo >= GEOCODER_DELAY

\* the geocoder call of the second URL of a run raised and the delay after
\* it has been slept
C9_Witness ==
    i = 2 /\ pc = "flush" /\ cur.geo = "error" /\ cur.geoCalls = 1

\* C10: when the input file is missing or unreadable the run ends at once: no
\* duplicate check, no fetch, no extraction, no geocoder call, and nothing
\* written to the session or the store.
C10_NoProcessingWithoutFile ==
    (pc # "idle" /\ fileState # "ok") =>
        /\ pc \in {"done", "aborted"}
        /\ i = 0 /\ urls = <<>>
        /\ cnt = CntInit /\ cur.geoCalls = 0 /\ inFlight = 0
        /\ propsP = {} /\ listsP = {}
        /\ Rows = hist.rows0

\* a run on a missing file has ended, with rows of an earlier run in the store
C10_Witness == fileState = "missing" /\ pc = "done" /\ listsC # {}

\* the URL being processed is fresh and its accepted object carries no "name"
NullTitle == i >= 1 /\ ~cur.known /\ cur.title = "null"

\* such a URL has called no geocoder and flushed no Property, the committed
\* rows are those of the moment it was taken up, the run is in the handler of
\* except Exception or past it, where the URL has ended as failed
C24_Failed ==
    NullTitle =>
        /\ cur.geoCalls = 0 /\ cur.propId = 0 /\ cur.geo = "none"
        /\ Rows = cur.at.rows
        /\ cur.err = "parse"
        /\ pc \in {"except_other", "delay", "loop", "done"}
        /\ pc # "except_other" => outcome[i] = Failed

\* the steps of the iteration of such a URL leave the session, the store and
\* the geocoder alone, and lead on to the next iteration
C24_Step ==
    (NullTitle' /\ pc \in {"parse", "except_other", "delay"}) =>
        /\ UNCHANGED <<store, session, nextId, nTxn, inFlight>>
        /\ pc' \in {"except_other", "delay", "loop"}

\* C24: a fresh URL whose accepted object has no "name" ends as failed
\* before anything is added to the session: no Property row, no Listing row
\* and no geocoder call for it, whatever keywords the URL holds, and the run
\* goes on to the next URL.
C24_NullTitleFails == []C24_Failed /\ [][C24_Step]_vars

\* a URL that holds "apartament" failed on its null title, nothing was
\* written for it, and the loop is about to take up the next URL
C24_Witness ==
    /\ NullTitle /\ Contains(UrlText(urls[i]), "apartament")
    /\ pc = "loop" /\ i < Len(urls)
    /\ outcome[i] = Failed
    /\ Rows = cur.at.rows /\ propsP = {} /\ listsP = {}

\* ================================================================ the crawler
\* Publi24Crawler (src/publi24_crawler.py): run() walks the result pages,
\* collects the listing URLs of each page in self.extracted_urls and saves the
\* set at the end.  Every crawl is a new instance; the output file stays.

\* the page budget (max_pages)
MaxPages == 2
\* most links of a result page
MaxLinks == 2
\* number of crawls, one after the other
MaxCrawls == 2

\* self.domain
Domain == "https://www.publi24.ro"

\* an href is a sequence of atoms.  Root-relative, without scheme, absolute;
\* and two hrefs the filter refuses (no "/anunt/", no ".html" at the end)
Slugs == {"a", "b"}
Hrefs == {<<"/anunt/", g, ".html">> : g \in Slugs}
         \cup {<<"ro/anunt/", g, ".html">> : g \in Slugs}
         \cup {<<Domain, "/anunt/", g, ".html">> : g \in Slugs}
         \cup {<<"/categorie/", "a", ".html">>, <<"/anunt/", "a", ".htm">>}
\* the links of a page (soup.find_all("a", href=True))
PageLinks == {ls \in SUBSET Hrefs : Cardinality(ls) <= MaxLinks}

\* "/anunt/" in href
HasAnunt(href) == \E k \in 1..Len(href) : href[k] \in {"/anunt/", "ro/anunt/"}
\* href.endswith(".html")
EndsWithHtml(href) == href[Len(href)] = ".html"
\* href.startswith("/"), href.startswith("http")
StartsWithSlash(href) == Head(href) \in {"/anunt/", "/categorie/"}
StartsWithHttp(href) == Head(href) = Domain
\* "/" + atom
Slash(a) == IF a = "ro/anunt/" THEN "/ro/anunt/" ELSE a

extract_urls_unfiltered(links) ==
    {IF StartsWithSlash(href) THEN <<Domain>> \o href
     ELSE IF ~StartsWithHttp(href) THEN <<Domain, Slash(Head(href))>> \o Tail(href)
     ELSE href : href \in links}

\* Publi24Crawler.extract_urls_from_html
extract_urls_from_html(links) ==
    {IF StartsWithSlash(href) THEN <<Domain>> \o href
     ELSE IF ~StartsWithHttp(href) THEN <<Domain, Slash(Head(href))>> \o Tail(href)
     ELSE href : href \in {h \in links : HasAnunt(h) /\ EndsWithHtml(h)}}

\* the order of str on the URLs the crawler builds: they differ first in the
\* directory ("/anunt/" before "/ro/anunt/"), then in the slug
Rank(url) == (IF url[2] = "/anunt/" THEN 0 ELSE 10) + (IF url[3] = "a" THEN 0 ELSE 1)
\* sorted(urls)
RECURSIVE Sorted(_)
Sorted(set) ==
    IF set = {} THEN <<>>
    ELSE LET least == CHOOSE u \in set : \A v \in set : Rank(u) <= Rank(v)
         IN <<least>> \o Sorted(set \ {least})

CrawlEnded == crPc \in {"idle", "done"}

\* a new Publi24Crawler is built and run(max_pages) is called
StartCrawl ==
    /\ CrawlEnded
    /\ crawls < MaxCrawls
    /\ crawls' = crawls + 1
    /\ crPc' = "loop"
    /\ page' = 0
    /\ html' = NoHtml
    /\ extracted' = {}
    /\ requested' = <<>>
    /\ slept' = FALSE
    /\ UNCHANGED <<pipeline, call, outFile>>

\* for page in range(1, max_pages + 1): fetch_search_page(page) is entered
NextPage ==
    /\ crPc = "loop"
    /\ page < MaxPages
    /\ page' = page + 1
    /\ crPc' = "sleep"
    /\ UNCHANGED <<pipeline, call, html, extracted, requested, slept, outFile, crawls>>

\* self._sleep_politely()
SleepPolitely ==
    /\ crPc = "sleep"
    /\ slept' = TRUE
    /\ crPc' = "fetch"
    /\ UNCHANGED <<pipeline, call, page, html, extracted, requested, outFile, crawls>>

\* httpx.get answers 2xx with a non-empty text
FetchPageOk ==
    /\ crPc = "fetch"
    /\ \E links \in PageLinks : html' = [ok |-> TRUE, links |-> links]
    /\ requested' = Append(requested, page)
    /\ slept' = FALSE
    /\ crPc' = "extract"
    /\ UNCHANGED <<pipeline, call, page, extracted, outFile, crawls>>

FetchPageFailsAborting ==
    /\ crPc = "fetch"
    /\ html' = NoHtml
    /\ requested' = Append(requested, page)
    /\ slept' = FALSE
    /\ crPc' = "save"
    /\ UNCHANGED <<pipeline, call, page, extracted, outFile, crawls>>

\* the request fails (the exception is caught, None is returned) or the text
\* is empty: if not html: continue
FetchPageFails ==
    /\ crPc = "fetch"
    /\ html' = NoHtml
    /\ requested' = Append(requested, page)
    /\ slept' = FALSE
    /\ crPc' = "loop"
    /\ UNCHANGED <<pipeline, call, page, extracted, outFile, crawls>>

ExtractUrlsUnfiltered ==
    /\ crPc = "extract"
    /\ extracted' = extracted \cup extract_urls_unfiltered(html.links)
    /\ html' = [html EXCEPT !.links = {}]
    /\ crPc' = "loop"
    /\ UNCHANGED <<pipeline, call, page, requested, slept, outFile, crawls>>

\* urls_on_page = self.extract_urls_from_html(html); self.extracted_urls.update;
\* the text of the page is not read again
ExtractUrls ==
    /\ crPc = "extract"
    /\ extracted' = extracted \cup extract_urls_from_html(html.links)
    /\ html' = [html EXCEPT !.links = {}]
    /\ crPc' = "loop"
    /\ UNCHANGED <<pipeline, call, page, requested, slept, outFile, crawls>>

\* the loop is over: save_urls_to_file() is entered
EndPages ==
    /\ crPc = "loop"
    /\ page = MaxPages
    /\ crPc' = "save"
    /\ UNCHANGED <<pipeline, call, page, html, extracted, requested, slept, outFile, crawls>>

\* save_urls_to_file: nothing to save returns at once; else the file is
\* rewritten with the sorted set
SaveUrls ==
    /\ crPc = "save"
    /\ outFile' = IF extracted = {} THEN [outFile EXCEPT !.writeFailed = FALSE]
                  ELSE [exists |-> TRUE, lines |-> Sorted(extracted), writeFailed |-> FALSE]
    /\ crPc' = "done"
    /\ UNCHANGED <<pipeline, call, page, html, extracted, requested, slept, crawls>>

\* save_urls_to_file: open() or a write raises IOError, which is logged; the
\* file is as it was, or truncated and written up to some line
SaveIOError ==
    /\ crPc = "save"
    /\ extracted # {}
    /\ \/ outFile' = [outFile EXCEPT !.writeFailed = TRUE]
       \/ \E n \in 0..(Cardinality(extracted) - 1) :
            outFile' = [exists |-> TRUE, lines |-> SubSeq(Sorted(extracted), 1, n),
                        writeFailed |-> TRUE]
    /\ crPc' = "done"
    /\ UNCHANGED <<pipeline, call, page, html, extracted, requested, slept, crawls>>

CrawlNext ==
    \/ StartCrawl \/ NextPage \/ SleepPolitely
    \/ FetchPageOk \/ FetchPageFails \/ ExtractUrls
    \/ EndPages \/ SaveUrls \/ SaveIOError

\* run() is sequential code: it goes on as long as it has a next step
CrawlSpec == Init /\ [][CrawlNext]_vars /\ WF_vars(CrawlNext)

\* ------------------------------------------------------- claims on the crawler
\* what the claim makes of an href: the absolute URL of a listing link, and
\* nothing for the other links
ListingUrl(g) == <<Domain, "/anunt/", g, ".html">>
Expected(href) ==
    CASE \E g \in Slugs : href = <<"/anunt/", g, ".html">> -> {ListingUrl(href[2])}
      [] \E g \in Slugs : href = <<"ro/anunt/", g, ".html">> ->
            {<<Domain, "/ro/anunt/", href[2], ".html">>}
      [] \E g \in Slugs : href = ListingUrl(g) -> {href}
      [] OTHER -> {}

\* every collected URL is absolute and is a listing URL
C18_Absolute ==
    \A u \in extracted : u \in UNION {Expected(h) : h \in Hrefs}

\* the links of a page add the URLs the claim makes of them, and nothing else
C18_Step ==
    (crPc = "extract" /\ crPc' = "loop") =>
        extracted' = extracted \cup UNION {Expected(h) : h \in html.links}

C19_Requests ==
    /\ requested = [k \in 1..Len(requested) |-> k]
    /\ Len(requested) = IF crPc \in {"sleep", "fetch"} THEN page - 1 ELSE page
    /\ crPc \in {"save", "done"} => Len(requested) = MaxPages
    /\ crPc = "fetch" => slept

\* a request follows a delay, a fetch goes on to the links or to the next
\* page, and no step of a crawl takes a URL out of the set
C19_Step ==
    /\ (~CrawlEnded /\ requested' # requested) => slept
    /\ crPc = "fetch" => crPc' \in {"fetch", "extract", "loop"}
    /\ ~CrawlEnded => extracted \subseteq extracted'

\* C19: run requests every page from 1 to the budget once, in increasing
\* order, each request after a politeness delay; a failed fetch or a page
\* without listing link neither ends the crawl nor removes a collected URL;
\* and the run ends.
C19_CrawlsEveryPage ==
    /\ []C19_Requests
    /\ [][C19_Step]_vars
    /\ (crPc = "loop") ~> (crPc = "done")

\* the last page could not be fetched, the crawl ended with the URLs of the
\* pages before it
C19_Witness ==
    crPc = "done" /\ ~html.ok /\ extracted # {} /\ requested = [k \in 1..MaxPages |-> k]

\* the lines are the set, each URL once, in ascending order
HoldsExactly(lines, set) ==
    /\ {lines[k] : k \in 1..Len(lines)} = set
    /\ Len(lines) = Cardinality(set)
    /\ \A j, k \in 1..Len(lines) : j < k => Rank(lines[j]) < Rank(lines[k])

\* C20: when run has ended (and writing the file did not fail), the output
\* file holds exactly the URL set of that run, one URL per line, without
\* duplicate, in ascending order; a file that does not exist counts as empty.
C20_FileIsFinalSet ==
    (crPc = "done" /\ ~outFile.writeFailed) => HoldsExactly(outFile.lines, extracted)

\* C20 for the crawls that collected a URL
C20_WhenUrlsCollected ==
    (crPc = "done" /\ ~outFile.writeFailed /\ extracted # {})
        => HoldsExactly(outFile.lines, extracted)

====
